---- MODULE Spec2Model ----
(***************************************************************************)
(* users-insights: the rate-limited GitHub client                          *)
(* (GitHubAPIService.request_with_rate_limit) and the metric orchestrator  *)
(* (GitHubInsightsService.execute) that runs the registered metrics on it. *)
(*                                                                         *)
(* Time is counted in ticks, TicksPerSec ticks to the second, so that      *)
(* int(time.time()) is a real truncation.  Only differences of times       *)
(* enter the code, so the epoch is moved by whole seconds (Shift) when a   *)
(* client call is entered and when a sleep ends: the clock and the times   *)
(* kept with it move together.                                             *)
(***************************************************************************)
EXTENDS Integers, Sequences, FiniteSets, TLC

VARIABLES
    phase,      \* START, VERIFY_SUBJECT, NOT_FOUND, EXECUTING, DONE, FAILED
    discovered, \* BaseGitHubMetric.__subclasses__(), in discovery order
    unit,       \* the activation of one metric's execute, call by call
    twin,       \* the same execute on a new instance, given the same values
    client,     \* GitHubAPIService: github_api_url, github_token, headers
    other,      \* request_with_rate_limit running in a second thread
    metrics,    \* self.metrics: the instances in execution order
    idx,        \* position of the for loop of execute in self.metrics
    result,     \* the dict execute builds and returns
    invoked,    \* the metrics whose execute was called in this run, in order
    failed,     \* the metrics of this run that ended in the except branch
    calls,      \* client calls (request_with_rate_limit) made in this run
    exists,     \* "unknown", or what user_exists returned: "yes" / "no"
    failure,    \* the exception that left execute, "none" if none did
    upc,        \* "idle", or "running" while a metric's execute is active
    ucalls,     \* client calls the running metric has made
    fetch,      \* the activation of request_with_rate_limit
    now         \* the clock, in ticks

vars == <<phase, discovered, unit, twin, client, other, metrics, idx, result,
          invoked, failed, calls, exists, failure, upc, ucalls, fetch, now>>

orchVars == <<phase, discovered, unit, twin, metrics, idx, result,
              invoked, failed, calls, exists, failure, upc, ucalls>>

----------------------------------------------------------------------------
(* Bounds of the model *)

TicksPerSec == 2
MaxLatency == 0
MaxOversleep == 0
MaxAhead == 2
MaxCallsPerUnit == 1
MaxRetries == 3

(* Program constants *)

DefaultRetries == 5
MinWait == 1

Max(a, b) == IF a >= b THEN a ELSE b

Range(s) == {s[i] : i \in 1 .. Len(s)}

----------------------------------------------------------------------------
(* JSON values as Python sees them after response.json().  A dict is
   described by its size and by what it holds under "message". *)

None == [t |-> "None", len |-> 0, hasMessage |-> FALSE, message |-> ""]
DictUser == [t |-> "dict", len |-> 1, hasMessage |-> FALSE, message |-> ""]
DictNotFound ==
    [t |-> "dict", len |-> 1, hasMessage |-> TRUE, message |-> "Not Found"]
DictOtherMessage ==
    [t |-> "dict", len |-> 1, hasMessage |-> TRUE, message |-> "Bad credentials"]
DictEmpty == [t |-> "dict", len |-> 0, hasMessage |-> FALSE, message |-> ""]
ListMessage == [t |-> "list", len |-> 1, hasMessage |-> TRUE, message |-> ""]
IntFive == [t |-> "int", len |-> 5, hasMessage |-> FALSE, message |-> ""]
BadJson == [t |-> "invalid", len |-> 0, hasMessage |-> FALSE, message |-> ""]

(* the bodies a 200 response can carry: JSON texts (null parses to None)
   and a text that is not JSON *)
Bodies == {DictUser, DictNotFound, DictOtherMessage, DictEmpty, ListMessage,
           IntFive, None, BadJson}

(* Python truthiness: None, 0 and empty containers are falsy *)
Truthy(v) == v.t # "None" /\ v.len > 0

----------------------------------------------------------------------------
(* Outcomes of requests.get: a response, or an exception of the transport *)

NoResp == [raises |-> FALSE, status |-> 0, remaining |-> FALSE,
           hasReset |-> FALSE, reset |-> 0, body |-> None]

Response(st, rem, hr, r, b) ==
    [raises |-> FALSE, status |-> st, remaining |-> rem,
     hasReset |-> hr, reset |-> r, body |-> b]

ConnectionError == [NoResp EXCEPT !.raises = TRUE]

(* reset instants the upstream may announce, in epoch seconds, around the
   present second *)
Resets(sec) == (sec - 1) .. (sec + MaxAhead)

Upstream(sec) ==
    {Response(200, FALSE, FALSE, 0, b) : b \in Bodies}
      \cup {Response(403, TRUE, TRUE, r, None) : r \in Resets(sec)}
      \cup {Response(403, TRUE, FALSE, 0, None),
            Response(403, FALSE, FALSE, 0, None),
            Response(404, FALSE, FALSE, 0, None),
            Response(500, FALSE, FALSE, 0, None),
            ConnectionError}

----------------------------------------------------------------------------
(* GitHubAPIService.request_with_rate_limit *)

(* int(time.time()): the clock reading truncated to whole seconds *)
IntTime(t) == t \div TicksPerSec

(* the whole seconds the epoch is moved by at clock reading t, which
   leaves the reading in second 1 *)
Shift(t) == IntTime(t) - 1

EnterClock(t) == t - Shift(t) * TicksPerSec

(* CoreService.get_header *)
get_header(token) ==
    [Authorization |-> <<"Bearer", token>>,
     Accept |-> "application/vnd.github.v3+json"]

(* GitHubAPIService.__init__: url and token are read from the settings,
   the header is built from the token *)
NewClient ==
    [github_api_url |-> "GITHUB_API_URL", github_token |-> "GITHUB_TOKEN",
     headers |-> get_header("GITHUB_TOKEN")]

(* what a request carries of the client: the base of parse_url and the
   headers *)
NoSent == [base |-> "", headers |-> <<>>]

Sent(c) == [base |-> c.github_api_url, headers |-> c.headers]

ClientAfter_Remember(c, o) ==
    IF o.status = 403 /\ o.remaining
    THEN [github_api_url |-> c.github_api_url, github_token |-> c.github_token,
          headers |-> c.headers, reset |-> o.reset]
    ELSE c

(* the instance after a response was handled: request_with_rate_limit
   assigns no attribute of self; reset_time and wait_time are locals *)
ClientAfter(c, o) == c

Idle == [pc |-> "idle", caller |-> "none", retries |-> 0, attempt |-> 0,
         reqs |-> 0, limited |-> 0, sleeps |-> 0, resp |-> NoResp,
         wait |-> 0, ret |-> None, exc |-> "none",
         reqAt |-> 0, hasT |-> FALSE, T |-> 0, sent |-> NoSent]

IsRateLimited_Any403(r) == r.status = 403

(* elif response.status_code == 403 and "X-RateLimit-Remaining" in headers *)
IsRateLimited(r) == r.status = 403 /\ r.remaining

(* reset_time = int(response.headers.get("X-RateLimit-Reset", time.time())) *)
ResetTime(r, t) == IF r.hasReset THEN r.reset ELSE IntTime(t)

WaitTime_Fixed(r, t) == MinWait

WaitTime_NoFloor(r, t) == Max(ResetTime(r, t) - IntTime(t), 0)

(* wait_time = max(reset_time - int(time.time()), 1) *)
WaitTime(r, t) == Max(ResetTime(r, t) - IntTime(t), MinWait)

RangeExhausted_OffByOne(attempt, retries) == attempt > retries

(* for attempt in range(retries): the loop is left, and the final raise
   reached, once the attempts are used up *)
RangeExhausted(attempt, retries) == attempt >= retries

(* the top of the for loop: the next iteration, or the raise after it *)
LoopTop(f) ==
    IF RangeExhausted(f.attempt, f.retries)
    THEN [f EXCEPT !.pc = "raised", !.exc = "Exhausted"]
    ELSE [f EXCEPT !.pc = "loop"]

(* entry of request_with_rate_limit(path, retries) *)
Enter(who, retries) ==
    LoopTop([Idle EXCEPT !.caller = who, !.retries = retries])

Success_DropBody(g, o) == [g EXCEPT !.pc = "returned", !.ret = None]

(* return response.json(): the parsed body is handed to the caller as it is *)
Success(g, o) == [g EXCEPT !.pc = "returned", !.ret = o.body]

(* one iteration of the loop body up to its return, sleep or raise: the
   request is issued at t0 and answered by o at t1 *)
Iterate(f, o, t0, t1) ==
    LET g == [f EXCEPT !.reqs = @ + 1, !.resp = o, !.reqAt = t0,
                       !.sent = Sent(client)] IN
    IF o.raises
    THEN [g EXCEPT !.pc = "raised", !.exc = "ConnectionError"]
    ELSE IF o.status = 200
    THEN IF o.body = BadJson
         THEN [g EXCEPT !.pc = "raised", !.exc = "JSONDecodeError"]
         ELSE Success(g, o)
    ELSE IF IsRateLimited(o)
    THEN [g EXCEPT !.pc = "sleep", !.limited = @ + 1,
                   !.wait = WaitTime(o, t1),
                   !.hasT = o.hasReset,
                   !.T = IF o.hasReset THEN o.reset ELSE 0]
    ELSE [g EXCEPT !.pc = "returned", !.ret = None]

(* the times an activation keeps, after the epoch has moved by sec whole
   seconds *)
Rebase(f, sec) ==
    IF f.pc = "idle" THEN f
    ELSE [f EXCEPT !.reqAt = @ - sec * TicksPerSec,
                   !.T = IF f.hasT THEN @ - sec ELSE 0]

Blocks_Process(peer) == peer.pc = "sleep"

(* time.sleep(wait_time) suspends the thread that calls it; the endpoint
   is a plain def, which FastAPI runs in a thread of its pool, so a call of
   another request is not held up by it *)
Blocks(peer) == FALSE

(* response = requests.get(parse_url, headers=self.headers) and the
   branch taken on it *)
Request ==
    /\ fetch.pc = "loop"
    /\ \E d \in 0 .. MaxLatency :
       \E o \in Upstream(IntTime(now + d)) :
          /\ now' = now + d
          /\ fetch' = Iterate(fetch, o, now, now + d)
          /\ client' = ClientAfter(client, o)
    /\ UNCHANGED <<orchVars, other>>

(* time.sleep(wait_time) returns, not before wait_time has passed, and the
   loop goes to its next attempt *)
Sleep ==
    /\ fetch.pc = "sleep"
    /\ \E over \in 0 .. MaxOversleep :
          LET woke == now + fetch.wait * TicksPerSec + over IN
          /\ now' = EnterClock(woke)
          /\ fetch' = LoopTop([fetch EXCEPT
                  !.attempt = @ + 1, !.sleeps = @ + 1,
                  !.reqAt = @ - Shift(woke) * TicksPerSec,
                  !.T = IF fetch.hasT THEN @ - Shift(woke) ELSE 0])
          /\ other' = Rebase(other, Shift(woke))
    /\ UNCHANGED <<orchVars, client>>

----------------------------------------------------------------------------
(* The registered metrics: BaseGitHubMetric.__subclasses__() in the order
   load_metrics imports their modules (pkgutil.iter_modules lists a
   directory by name) *)

Discovered ==
    <<"MostActiveHours", "ActivityRecent", "LanguagesMostUsed",
      "RepositoriesWithMorePRs">>

(* self.order of a metric that does not set it: OderService.default *)
DefaultOrder == 100

(* two further subclasses of BaseGitHubMetric, as a metrics directory may
   hold them: both keep the default order and both use the same key *)
Plugins == {"PluginA", "PluginB"}

(* self.order of each metric: the values of OderService *)
Order(m) ==
    CASE m = "LanguagesMostUsed" -> 1
      [] m = "RepositoriesWithMorePRs" -> 2
      [] m = "ActivityRecent" -> 3
      [] m = "MostActiveHours" -> 4
      [] m \in Plugins -> DefaultOrder

(* the key each metric passes to format_response *)
Key(m) ==
    CASE m = "LanguagesMostUsed" -> "most_used_languages"
      [] m = "RepositoriesWithMorePRs" -> "repos_with_more_prs"
      [] m = "ActivityRecent" -> "monthly_contributions"
      [] m = "MostActiveHours" -> "hours_more_activity"
      [] m \in Plugins -> "plugin_data"

RECURSIVE Insert_Unstable(_, _)
Insert_Unstable(m, s) ==
    IF s = <<>> THEN <<m>>
    ELSE IF Order(m) <= Order(Head(s)) THEN <<m>> \o s
    ELSE <<Head(s)>> \o Insert_Unstable(m, Tail(s))

(* sorted(instances, key=lambda m: m.order): Python's sort is stable *)
RECURSIVE Insert(_, _)
Insert(m, s) ==
    IF s = <<>> THEN <<m>>
    ELSE IF Order(m) < Order(Head(s)) THEN <<m>> \o s
    ELSE <<Head(s)>> \o Insert(m, Tail(s))

RECURSIVE Sorted(_)
Sorted(s) ==
    IF s = <<>> THEN <<>>
    ELSE Insert(s[Len(s)], Sorted(SubSeq(s, 1, Len(s) - 1)))

EmptyList == [kind |-> "empty", by |-> ""]

format_response_OmitEmpty(key, data) ==
    [k \in (IF data = EmptyList THEN {} ELSE {key}) |-> data]

(* BaseGitHubMetric.format_response *)
format_response(key, data) == [k \in {key} |-> data]

Update_KeepFirst(d, e) ==
    [k \in DOMAIN d \cup DOMAIN e |-> IF k \in DOMAIN d THEN d[k] ELSE e[k]]

(* dict.update *)
Update(d, e) ==
    [k \in DOMAIN d \cup DOMAIN e |-> IF k \in DOMAIN e THEN e[k] ELSE d[k]]

EmptyDict == [k \in {} |-> ""]

(* the local name result before result = {} has bound it *)
Unbound == [k \in {"<unbound>"} |-> ""]

Rebind_KeepOld(old) == old

(* result = {}: the name is bound to a new empty dict, whatever it held *)
Rebind(old) == EmptyDict

(* what metric m hands to format_response: the records it built, or an
   empty list, which is the same value whichever metric built it *)
Payloads(m) == {[kind |-> "records", by |-> m], EmptyList}

----------------------------------------------------------------------------
(* The four metrics, each execute followed from one client call to the
   next.  A client call returns None or the JSON value of a 200 response;
   of that value the metrics read the number of its items: the entries of
   a list, the "items" / "total_count" of a search result, the "files" of
   a commit. *)

MaxItems == 2

(* the values MAX_PAGES and MAX_RESULTS_PER_PAGE would have where the
   settings define them *)
MaxPages == 2
PerPage == 2

AbsentV == [t |-> "None", n |-> 0]

Data(k) == [t |-> "data", n |-> k]

Returned == {AbsentV} \cup {Data(k) : k \in 0 .. MaxItems}

(* not x, for a value a list endpoint returned: None and [] are falsy *)
Falsy(v) == v.t = "None" \/ v.n = 0

(* the attributes of Settings and CoreService.get_setting: getattr with
   the default None *)
SettingsAttrs == {"GITHUB_API_URL", "GITHUB_TOKEN", "LOG_LEVEL"}

get_setting(key) == IF key \in SettingsAttrs THEN "set" ELSE "None"

(* program constants of the metrics *)
Months == 6
MAX_FILES_PER_COMMIT == 5
EnoughLanguages == 100
ReposForHours == 5

Min(a, b) == IF a <= b THEN a ELSE b

NoUnit == [name |-> "none", pc |-> "idle", ncalls |-> 0, absent |-> 0,
           month |-> 0, repos |-> 0, commits |-> 0, page |-> 0,
           counted |-> 0, ret |-> EmptyDict, exc |-> "none", run |-> 0]

(* a list of records built by metric m whose counts are all zero *)
ZeroList(m) == [kind |-> "zero", by |-> m]

Records(m) == [kind |-> "records", by |-> m]

(* return self.format_response(key, data) *)
Return(u, data) ==
    [u EXCEPT !.pc = "returned", !.ret = format_response(Key(u.name), data)]

Raise(u, e) == [u EXCEPT !.pc = "raised", !.exc = e]

(* the client call at the site the metric is at has returned v *)
Called(u, v) ==
    [u EXCEPT !.ncalls = @ + 1, !.absent = IF v.t = "None" THEN @ + 1 ELSE @]

(* LanguagesMostUsed: most_used after the loop over the repositories *)
Languages_Finish(u) ==
    Return(u, IF u.counted > 0 THEN Records(u.name) ELSE EmptyList)

(* the for loop over repos after one repository: the break on more than
   100 counted files, the next repository, or the end *)
Languages_NextRepo(u) ==
    IF u.counted > EnoughLanguages \/ u.repos <= 1
    THEN Languages_Finish([u EXCEPT !.repos = 0, !.commits = 0])
    ELSE [u EXCEPT !.repos = @ - 1, !.commits = 0, !.pc = "lang_commits"]

Languages_NextCommit(u) ==
    IF u.commits <= 1 THEN Languages_NextRepo(u)
    ELSE [u EXCEPT !.commits = @ - 1, !.pc = "lang_files"]

(* get_commit_files: "files" not in commit_data, on None, is a TypeError *)
get_commit_files(v) == IF v.t = "None" THEN "TypeError" ELSE "files"

Languages_Resume(u, v) ==
    CASE u.pc = "lang_repos" ->
            IF Falsy(v) THEN Return(u, EmptyList)
            ELSE [u EXCEPT !.repos = v.n, !.pc = "lang_commits"]
      [] u.pc = "lang_commits" ->
            IF Falsy(v) THEN Languages_NextRepo(u)
            ELSE [u EXCEPT !.commits = v.n, !.pc = "lang_files"]
      [] u.pc = "lang_files" ->
            IF get_commit_files(v) = "TypeError" THEN Raise(u, "TypeError")
            ELSE Languages_NextCommit(
                   [u EXCEPT !.counted = @ + Min(v.n, MAX_FILES_PER_COMMIT)])

(* RepositoriesWithMorePRs: the while loop and what follows it *)
PullRequests_Finish(u) ==
    Return(u, IF u.counted > 0 THEN Records(u.name) ELSE EmptyList)

(* while page <= self.max_pages: self.max_pages is
   get_setting("MAX_PAGES"), and comparing an int with None is a TypeError *)
PullRequests_Loop(u) ==
    IF get_setting("MAX_PAGES") = "None" THEN Raise(u, "TypeError")
    ELSE IF u.page <= MaxPages THEN [u EXCEPT !.pc = "pr_page"]
    ELSE PullRequests_Finish(u)

PullRequests_Resume(u, v) ==
    IF v.t = "None" THEN PullRequests_Finish(u)
    ELSE IF get_setting("MAX_RESULTS_PER_PAGE") = "None"
         THEN Raise([u EXCEPT !.counted = @ + v.n], "TypeError")
         ELSE IF v.n < PerPage
              THEN PullRequests_Finish([u EXCEPT !.counted = @ + v.n])
              ELSE PullRequests_Loop(
                     [u EXCEPT !.counted = @ + v.n, !.page = @ + 1])

(* ActivityRecent: the loop over the months, then over repos and months *)
Activity_Resume(u, v) ==
    CASE u.pc = "act_prs" ->
            [u EXCEPT !.counted = @ + v.n, !.pc = "act_issues"]
      [] u.pc = "act_issues" ->
            IF u.month < Months
            THEN [u EXCEPT !.counted = @ + v.n, !.month = @ + 1,
                           !.pc = "act_prs"]
            ELSE [u EXCEPT !.counted = @ + v.n, !.pc = "act_repos"]
      [] u.pc = "act_repos" ->
            IF Falsy(v) THEN Return(u, EmptyList)
            ELSE [u EXCEPT !.repos = v.n, !.month = 1, !.pc = "act_commits"]
      [] u.pc = "act_commits" ->
            LET w == [u EXCEPT !.counted = @ + v.n] IN
            IF u.month < Months THEN [w EXCEPT !.month = @ + 1]
            ELSE IF u.repos > 1 THEN [w EXCEPT !.repos = @ - 1, !.month = 1]
            ELSE Return([w EXCEPT !.repos = 0],
                        IF w.counted > 0 THEN Records(u.name)
                        ELSE ZeroList(u.name))

(* MostActiveHours: the three periods, counted over all timestamps *)
Hours_Finish(u) ==
    Return(u, IF u.counted > 0 THEN Records(u.name) ELSE ZeroList(u.name))

Hours_Resume(u, v) ==
    CASE u.pc = "hrs_events" ->
            [u EXCEPT !.counted = @ + v.n, !.pc = "hrs_issues"]
      [] u.pc = "hrs_issues" ->
            [u EXCEPT !.counted = @ + v.n, !.pc = "hrs_repos"]
      [] u.pc = "hrs_repos" ->
            IF Falsy(v) THEN Hours_Finish(u)
            ELSE [u EXCEPT !.repos = Min(v.n, ReposForHours),
                           !.pc = "hrs_commits"]
      [] u.pc = "hrs_commits" ->
            LET w == [u EXCEPT !.counted = @ + v.n] IN
            IF u.repos > 1 THEN [w EXCEPT !.repos = @ - 1]
            ELSE Hours_Finish([w EXCEPT !.repos = 0])

(* executions of one instance that are told apart: the first, the second *)
MaxRuns == 2

Locals_Stale(prev) ==
    [NoUnit EXCEPT !.run = prev.run, !.counted = prev.counted]

(* what an execute finds of the activation before it on the same instance:
   its counters and lists are locals, made anew in execute, and the
   instance keeps nothing of them; run only numbers the executions *)
Locals(prev) == [NoUnit EXCEPT !.run = prev.run]

(* metric.execute(username) up to its first client call, on the locals u0 *)
Start(u0, m) ==
    LET u == [u0 EXCEPT !.name = m, !.run = Min(@ + 1, MaxRuns)] IN
    CASE m = "LanguagesMostUsed" -> [u EXCEPT !.pc = "lang_repos"]
      [] m = "RepositoriesWithMorePRs" ->
            PullRequests_Loop([u EXCEPT !.page = 1])
      [] m = "ActivityRecent" -> [u EXCEPT !.pc = "act_prs", !.month = 1]
      [] m = "MostActiveHours" -> [u EXCEPT !.pc = "hrs_events"]

(* the first execute of a new instance *)
Begin(m) == Start(NoUnit, m)

AtCall(u) == u.pc \notin {"idle", "returned", "raised"}

(* from the return of a client call to the next call, return or raise *)
Resume(u, v) ==
    CASE u.name = "LanguagesMostUsed" -> Languages_Resume(Called(u, v), v)
      [] u.name = "RepositoriesWithMorePRs" ->
            PullRequests_Resume(Called(u, v), v)
      [] u.name = "ActivityRecent" -> Activity_Resume(Called(u, v), v)
      [] u.name = "MostActiveHours" -> Hours_Resume(Called(u, v), v)

(* execute is called on the instance that ran unit before, and, for
   comparison, on a new instance *)
UnitExecute(m) ==
    /\ phase = "START"
    /\ ~AtCall(unit) /\ ~AtCall(twin)
    /\ unit' = Start(Locals(unit), m)
    /\ twin' = Begin(m)
    /\ UNCHANGED <<phase, discovered, client, other, metrics, idx,
                   result, invoked, failed, calls, exists, failure, upc,
                   ucalls, fetch, now>>

(* the client call each of the two is in returns the same value v *)
UnitCall ==
    /\ AtCall(unit) \/ AtCall(twin)
    /\ \E v \in Returned :
          /\ unit' = IF AtCall(unit) THEN Resume(unit, v) ELSE unit
          /\ twin' = IF AtCall(twin) THEN Resume(twin, v) ELSE twin
    /\ UNCHANGED <<phase, discovered, client, other, metrics, idx,
                   result, invoked, failed, calls, exists, failure, upc,
                   ucalls, fetch, now>>

NextUnits ==
    \/ \E m \in Range(discovered) : UnitExecute(m)
    \/ UnitCall

----------------------------------------------------------------------------
(* GitHubInsightsService *)

(* user_exists, on the value the client call returned: "True", "False", or
   the TypeError Python raises for "message" in / ["message"] on a value
   that does not support it *)
user_exists(response) ==
    IF ~Truthy(response) THEN "False"
    ELSE IF response.t \notin {"dict", "list"} THEN "TypeError"
    ELSE IF ~response.hasMessage THEN "True"
    ELSE IF response.t # "dict" THEN "TypeError"
    ELSE IF response.message = "Not Found" THEN "False"
    ELSE "True"

AfterVerify_NoRaise(found) == "EXECUTING"

(* if not self.user_exists(username): raise HTTPException(status_code=404) *)
AfterVerify(found) == IF found THEN "EXECUTING" ELSE "NOT_FOUND"

AfterError_Break(i) == Len(metrics) + 1

AfterError_Retry(i) == i

(* except Exception as e: the error is logged and the for loop goes on *)
AfterError(i) == i + 1

Catches_HTTPOnly(e) == e = "HTTPException404"

(* except Exception: every exception raised under the try derives from
   Exception *)
Catches(e) ==
    e \in {"Exhausted", "ConnectionError", "JSONDecodeError", "TypeError",
           "HTTPException404"}

Busy_Async(u, f) == FALSE

(* data = metric.execute(username) is a plain call: the loop body goes on
   only when the metric, and with it the client call it is in, has
   returned or raised *)
Busy(u, f) == u = "running" \/ f.pc # "idle"

Iterated_Consume(ms) == Tail(ms)

(* for metric in self.metrics: the loop reads the list and leaves it as
   it is *)
Iterated(ms) == ms

(* the for loop of execute after the metric at position i: the next
   position, or the return of result *)
LoopPhase(i) == IF i > Len(metrics) THEN "DONE" ELSE "EXECUTING"

Terminal == {"NOT_FOUND", "DONE", "FAILED"}

Handler_AlwaysServerError(e) == 500

(* the exception handlers of the application: an HTTPException is
   answered with its status_code, any other exception with 500 *)
Handler(e) == IF e = "HTTPException404" THEN 404 ELSE 500

(* the status the endpoint has answered the run with, 0 while it runs *)
Answer ==
    CASE phase = "DONE" -> 200
      [] phase \in {"NOT_FOUND", "FAILED"} -> Handler(failure)
      [] OTHER -> 0

Init ==
    /\ phase = "START"
    /\ discovered = Discovered
    /\ unit = NoUnit
    /\ twin = NoUnit
    /\ client = NewClient
    /\ other = Idle
    /\ metrics = Sorted(discovered)
    /\ idx = 0
    /\ result = Unbound
    /\ invoked = <<>>
    /\ failed = {}
    /\ calls = 0
    /\ exists = "unknown"
    /\ failure = "none"
    /\ upc = "idle"
    /\ ucalls = 0
    /\ fetch = Idle
    /\ now \in TicksPerSec .. (2 * TicksPerSec - 1)

(* execute(username) is entered: user_exists makes its client call.  The
   username only names the path asked for; what the upstream answers for it
   is chosen in Request *)
Execute ==
    /\ phase \in Terminal \cup {"START"}
    /\ fetch.pc = "idle"
    /\ phase' = "VERIFY_SUBJECT"
    /\ idx' = 0
    /\ result' = Unbound
    /\ invoked' = <<>>
    /\ failed' = {}
    /\ calls' = 1
    /\ exists' = "unknown"
    /\ failure' = "none"
    /\ fetch' = Enter("user_exists", DefaultRetries)
    /\ now' = EnterClock(now)
    /\ UNCHANGED <<discovered, unit, twin, client, other, metrics, upc, ucalls>>

(* the client call of user_exists ends; user_exists decides and execute
   raises the 404 or sets result = {} and enters its loop *)
Verify ==
    /\ phase = "VERIFY_SUBJECT"
    /\ fetch.caller = "user_exists"
    /\ fetch.pc \in {"returned", "raised"}
    /\ fetch' = Idle
    /\ IF fetch.pc = "raised"
       THEN /\ phase' = "FAILED"
            /\ failure' = fetch.exc
            /\ UNCHANGED <<exists, result, idx>>
       ELSE LET v == user_exists(fetch.ret) IN
               IF v = "TypeError"
               THEN /\ phase' = "FAILED"
                    /\ failure' = "TypeError"
                    /\ UNCHANGED <<exists, result, idx>>
               ELSE /\ exists' = IF v = "True" THEN "yes" ELSE "no"
                    /\ IF AfterVerify(v = "True") = "NOT_FOUND"
                       THEN /\ phase' = "NOT_FOUND"
                            /\ failure' = "HTTPException404"
                            /\ UNCHANGED <<result, idx>>
                       ELSE /\ result' = Rebind(result)
                            /\ idx' = 1
                            /\ phase' = LoopPhase(1)
                            /\ UNCHANGED failure
    /\ UNCHANGED <<discovered, unit, twin, client, other, metrics, invoked, failed, calls, upc, ucalls, now>>

(* data = metric.execute(username) is called for the metric at idx *)
MetricStart ==
    /\ phase = "EXECUTING"
    /\ ~Busy(upc, fetch)
    /\ upc' = "running"
    /\ ucalls' = 0
    /\ invoked' = Append(invoked, metrics[idx])
    /\ metrics' = Iterated(metrics)
    /\ UNCHANGED <<phase, discovered, unit, twin, client, other, idx, result, failed, calls,
                   exists, failure, fetch, now>>

(* the running metric calls request_with_rate_limit(path); the two
   further subclasses compute without the client *)
MetricCall ==
    /\ upc = "running"
    /\ metrics[idx] \notin Plugins
    /\ fetch.pc = "idle"
    /\ ucalls < MaxCallsPerUnit
    /\ ucalls' = ucalls + 1
    /\ calls' = calls + 1
    /\ fetch' = Enter("metric", DefaultRetries)
    /\ now' = EnterClock(now)
    /\ UNCHANGED <<phase, discovered, unit, twin, client, other, metrics, idx, result, invoked, failed,
                   exists, failure, upc>>

(* the client call returns a value or None to the metric, which goes on *)
MetricResume ==
    /\ upc = "running"
    /\ fetch.caller = "metric"
    /\ fetch.pc = "returned"
    /\ fetch' = Idle
    /\ UNCHANGED <<orchVars, client, other, now>>

(* the metric returns format_response(key, payload); result.update(data) *)
MetricReturn(payload) ==
    /\ upc = "running"
    /\ fetch.pc = "idle"
    /\ result' = Update(result, format_response(Key(metrics[idx]), payload))
    /\ idx' = idx + 1
    /\ phase' = LoopPhase(idx + 1)
    /\ upc' = "idle"
    /\ UNCHANGED <<discovered, unit, twin, client, other, metrics, invoked, failed, calls, exists,
                   failure, ucalls, fetch, now>>

(* an exception leaves metric.execute, raised by the client call it was in
   or by the metric's own code, and is caught by the except branch *)
MetricRaise ==
    /\ upc = "running"
    /\ \/ fetch.pc = "idle"
       \/ fetch.caller = "metric" /\ fetch.pc = "raised"
    /\ fetch' = Idle
    /\ upc' = "idle"
    /\ LET e == IF fetch.pc = "raised" THEN fetch.exc ELSE "TypeError" IN
       IF Catches(e)
       THEN /\ failed' = failed \cup {metrics[idx]}
            /\ idx' = AfterError(idx)
            /\ phase' = LoopPhase(AfterError(idx))
            /\ UNCHANGED failure
       ELSE /\ phase' = "FAILED"
            /\ failure' = e
            /\ UNCHANGED <<failed, idx>>
    /\ UNCHANGED <<discovered, unit, twin, client, other, metrics, result, invoked, calls, exists, ucalls, now>>

Next ==
    \/ Execute
    \/ Request
    \/ Sleep
    \/ Verify
    \/ MetricStart
    \/ MetricCall
    \/ MetricResume
    \/ upc = "running" /\ \E p \in Payloads(metrics[idx]) : MetricReturn(p)
    \/ MetricRaise

Spec == Init /\ [][Next]_vars

----------------------------------------------------------------------------
(* The client alone: calls of request_with_rate_limit(path, retries) with
   every retries up to MaxRetries and with the default *)

ClientCall(retries) ==
    /\ phase = "START"
    /\ fetch.pc = "idle"
    /\ fetch' = Enter("driver", retries)
    /\ now' = EnterClock(now)
    /\ UNCHANGED <<orchVars, client, other>>

ClientDone ==
    /\ fetch.caller = "driver"
    /\ fetch.pc \in {"returned", "raised"}
    /\ fetch' = Idle
    /\ UNCHANGED <<orchVars, client, other, now>>

NextClient ==
    \/ \E r \in (0 .. MaxRetries) \cup {DefaultRetries} : ClientCall(r)
    \/ Request
    \/ Sleep
    \/ ClientDone

SpecClient == Init /\ [][NextClient]_vars

----------------------------------------------------------------------------
(* Two requests served at the same time, each by its own thread, service
   and client built from the same settings: the client call of the one is
   fetch, the client call of the other is other, and both read one clock *)

PairRetries == 2

(* the answers the two calls are given: one body stands for every
   parsed body, since the calls differ by their rate-limit events *)
PairUpstream(sec) ==
    {o \in Upstream(sec) : o.status = 200 => o.body = DictUser}

PairStart ==
    /\ phase = "START"
    /\ fetch.pc = "idle"
    /\ other.pc = "idle"
    /\ fetch' = Enter("first", PairRetries)
    /\ other' = Enter("second", PairRetries)
    /\ now' = EnterClock(now)
    /\ UNCHANGED <<orchVars, client>>

(* the request of the first thread *)
PairRequest ==
    /\ fetch.pc = "loop"
    /\ ~Blocks(other)
    /\ \E o \in PairUpstream(IntTime(now)) :
          /\ fetch' = Iterate(fetch, o, now, now)
          /\ client' = ClientAfter(client, o)
    /\ UNCHANGED <<orchVars, other, now>>

(* the request of the second thread *)
OtherRequest ==
    /\ other.pc = "loop"
    /\ ~Blocks(fetch)
    /\ \E o \in PairUpstream(IntTime(now)) :
          /\ other' = Iterate(other, o, now, now)
          /\ client' = ClientAfter(client, o)
    /\ UNCHANGED <<orchVars, fetch, now>>

(* the instant the time.sleep of f returns when the clock reads t: not
   before wait_time has passed since the response that started it *)
Woke(f, t, late) == Max(t, f.reqAt + f.wait * TicksPerSec + late)

(* the loop of f after its sleep, the epoch moved by sec seconds *)
Woken(f, sec) ==
    LoopTop(Rebase([f EXCEPT !.attempt = @ + 1, !.sleeps = @ + 1], sec))

(* the sleep of the first thread returns *)
PairSleep ==
    /\ fetch.pc = "sleep"
    /\ \E late \in 0 .. MaxOversleep :
          LET woke == Woke(fetch, now, late) IN
          /\ now' = EnterClock(woke)
          /\ fetch' = Woken(fetch, Shift(woke))
          /\ other' = Rebase(other, Shift(woke))
    /\ UNCHANGED <<orchVars, client>>

(* the sleep of the second thread returns *)
OtherSleep ==
    /\ other.pc = "sleep"
    /\ \E late \in 0 .. MaxOversleep :
          LET woke == Woke(other, now, late) IN
          /\ now' = EnterClock(woke)
          /\ other' = Woken(other, Shift(woke))
          /\ fetch' = Rebase(fetch, Shift(woke))
    /\ UNCHANGED <<orchVars, client>>

(* both calls have returned or raised *)
PairDone ==
    /\ fetch.pc \in {"returned", "raised"}
    /\ other.pc \in {"returned", "raised"}
    /\ fetch.caller = "first"
    /\ fetch' = Idle
    /\ other' = Idle
    /\ UNCHANGED <<orchVars, client, now>>

NextPair ==
    \/ PairStart
    \/ PairRequest
    \/ OtherRequest
    \/ PairSleep
    \/ OtherSleep
    \/ PairDone

SpecPair == Init /\ [][NextPair]_vars

----------------------------------------------------------------------------
(* ActivityRecent.execute with its dates and its dict of contributions.
   A date is a record of year, month and day; strftime("%Y-%m") of a date
   is written as the number YYYYMM, which is ordered as the strings are *)

IsLeap(y) == y % 4 = 0 /\ (y % 100 # 0 \/ y % 400 = 0)

DaysInMonth(y, m) ==
    IF m = 2 THEN (IF IsLeap(y) THEN 29 ELSE 28)
    ELSE IF m \in {4, 6, 9, 11} THEN 30 ELSE 31

(* the current dates analysed: every day of a leap year and of the year
   after it *)
Todays ==
    {t \in [year : {2024, 2025}, month : 1 .. 12, day : 1 .. 31] :
        t.day <= DaysInMonth(t.year, t.month)}

(* the last day of the month before the month of t *)
EndOfPrevMonth(t) ==
    IF t.month > 1
    THEN [t EXCEPT !.month = @ - 1, !.day = DaysInMonth(t.year, t.month - 1)]
    ELSE [year |-> t.year - 1, month |-> 12, day |-> 31]

(* today - timedelta(days=n) *)
RECURSIVE DaysBefore(_, _)
DaysBefore(t, n) ==
    IF n < t.day THEN [t EXCEPT !.day = @ - n]
    ELSE DaysBefore(EndOfPrevMonth(t), n - t.day)

(* strftime("%Y-%m") *)
YearMonth(t) == t.year * 100 + t.month

(* months = [(today - timedelta(days=30 * i)).strftime("%Y-%m")
             for i in range(6)] *)
MonthsOf(today) ==
    [i \in 1 .. Months |-> YearMonth(DaysBefore(today, 30 * (i - 1)))]

(* contributions: one entry of zero counts for each month of the list; a
   month that occurs twice in the list is one key *)
NoContributions(months) ==
    [k \in Range(months) |-> [pull_requests |-> 0, issues |-> 0, commits |-> 0]]

(* the keys of a dict built from sorted(months), in insertion order *)
RECURSIVE Ascending(_)
Ascending(S) ==
    IF S = {} THEN <<>>
    ELSE LET least == CHOOSE k \in S : \A j \in S : k <= j
         IN  <<least>> \o Ascending(S \ {least})

(* contributions_list = [{"month": month, **data}
                         for month, data in contributions.items()] *)
contributions_list(c) ==
    LET keys == Ascending(DOMAIN c) IN
    [i \in 1 .. Len(keys) |->
        [month |-> keys[i], pull_requests |-> c[keys[i]].pull_requests,
         issues |-> c[keys[i]].issues, commits |-> c[keys[i]].commits]]

(* data.get("total_count", 0) if data else 0, and
   len(commits) if commits else 0 *)
CountOf(v) == IF v.t = "None" THEN 0 ELSE v.n

(* what the upstream holds for the user: the answer to each search for
   pull requests, to each search for issues, to the listing of the
   repositories, and to each listing of commits *)
Worlds ==
    [prs : {AbsentV, Data(1)}, issues : {AbsentV, Data(1)},
     repos : Returned, commits : {AbsentV, Data(1)}]

(* ActivityRecent.execute(username) on the date today, up to its first
   client call *)
Activity_Begin(today, w) ==
    [name |-> "ActivityRecent", pc |-> "act_prs", today |-> today,
     world |-> w, months |-> MonthsOf(today), i |-> 1,
     contributions |-> NoContributions(MonthsOf(today)),
     nrepos |-> 0, r |-> 0, ncalls |-> 0, ret |-> EmptyDict]

(* from one client call of execute to the next, or to the return *)
Activity_Step(u) ==
    LET m == u.months[u.i]
        c == u.contributions
        n == [u EXCEPT !.ncalls = @ + 1]
    IN
    CASE u.pc = "act_prs" ->
            [n EXCEPT !.contributions[m].pull_requests = CountOf(u.world.prs),
                      !.pc = "act_issues"]
      [] u.pc = "act_issues" ->
            LET w == [n EXCEPT !.contributions[m].issues =
                                   CountOf(u.world.issues)] IN
            IF u.i < Months THEN [w EXCEPT !.i = @ + 1, !.pc = "act_prs"]
            ELSE [w EXCEPT !.pc = "act_repos"]
      [] u.pc = "act_repos" ->
            IF Falsy(u.world.repos)
            THEN Return(n, EmptyList)
            ELSE [n EXCEPT !.nrepos = u.world.repos.n, !.r = 1, !.i = 1,
                           !.pc = "act_commits"]
      [] u.pc = "act_commits" ->
            LET w == [n EXCEPT !.contributions[m].commits =
                                   @ + CountOf(u.world.commits)] IN
            IF u.i < Months THEN [w EXCEPT !.i = @ + 1]
            ELSE IF u.r < u.nrepos THEN [w EXCEPT !.r = @ + 1, !.i = 1]
            ELSE Return(w, contributions_list(w.contributions))

ActivityExecute ==
    /\ phase = "START"
    /\ unit.pc = "idle"
    /\ \E today \in Todays, w \in Worlds : unit' = Activity_Begin(today, w)
    /\ UNCHANGED <<phase, discovered, twin, client, other, metrics, idx,
                   result, invoked, failed, calls, exists, failure, upc,
                   ucalls, fetch, now>>

ActivityCall ==
    /\ unit.name = "ActivityRecent"
    /\ AtCall(unit)
    /\ unit' = Activity_Step(unit)
    /\ UNCHANGED <<phase, discovered, twin, client, other, metrics, idx,
                   result, invoked, failed, calls, exists, failure, upc,
                   ucalls, fetch, now>>

(* the caller has taken the returned dict *)
ActivityDone ==
    /\ unit.name = "ActivityRecent"
    /\ unit.pc = "returned"
    /\ unit' = NoUnit
    /\ UNCHANGED <<phase, discovered, twin, client, other, metrics, idx,
                   result, invoked, failed, calls, exists, failure, upc,
                   ucalls, fetch, now>>

NextActivity ==
    \/ ActivityExecute
    \/ ActivityCall
    \/ ActivityDone

(* one metric instance after its __init__, before any execute *)
InitMetric == Init /\ now = TicksPerSec

SpecActivity == InitMetric /\ [][NextActivity]_vars

----------------------------------------------------------------------------
(* MostActiveHours.execute with the timestamps it gathers *)

MaxRepos == 6

(* a timestamp: one that strptime("%Y-%m-%dT%H:%M:%SZ") parses, with its
   hour, or one it raises on *)
Stamp(h) == [ok |-> TRUE, hour |-> h]

BadStamp == [ok |-> FALSE, hour |-> 0]

(* the timestamps listed: hours on both sides of each boundary, and one
   that does not parse *)
Stamps == {Stamp(h) : h \in {0, 11, 12, 17, 18, 23}} \cup {BadStamp}

(* an element of a listing: with its timestamp under the key that is
   looked for ("created_at", "commit"), or without that key *)
Items ==
    {[key |-> TRUE, at |-> st] : st \in Stamps}
      \cup {[key |-> FALSE, at |-> BadStamp]}

ListOf(items) == [t |-> "list", items |-> items]

(* what a listing answers: None, an empty list, a list of one element *)
Listings ==
    {[t |-> "None", items |-> <<>>], ListOf(<<>>)}
      \cup {ListOf(<<i>>) : i \in Items}

(* the search may also answer a dict that has no "items" *)
HourWorlds ==
    [events : Listings,
     issues : Listings \cup {[t |-> "noitems", items |-> <<>>]},
     repos : {AbsentV} \cup {Data(k) : k \in 0 .. MaxRepos},
     commits : Listings]

(* [x[key] for x in listing if key in x], and [] for a falsy answer or a
   dict without "items" *)
RECURSIVE Gather(_)
Gather(items) ==
    IF items = <<>> THEN <<>>
    ELSE (IF Head(items).key THEN <<Head(items).at>> ELSE <<>>)
            \o Gather(Tail(items))

Period_NoonIsMorning(hour) ==
    IF hour <= 12 THEN "morning"
    ELSE IF hour < 18 THEN "afternoon" ELSE "evening"

(* the branch of categorize_by_hour an hour takes *)
Period(hour) ==
    IF hour < 12 THEN "morning"
    ELSE IF 12 <= hour /\ hour < 18 THEN "afternoon" ELSE "evening"

(* categorize_by_hour: a timestamp strptime raises on is logged and left
   out *)
RECURSIVE categorize_by_hour(_)
categorize_by_hour(timestamps) ==
    IF timestamps = <<>>
    THEN [morning |-> 0, afternoon |-> 0, evening |-> 0]
    ELSE LET rest == categorize_by_hour(Tail(timestamps))
             ts == Head(timestamps)
         IN  IF ~ts.ok THEN rest
             ELSE [rest EXCEPT ![Period(ts.hour)] = @ + 1]

(* hours_activity_list, in the order of the dict's keys *)
hours_activity_list(a) ==
    <<[period |-> "morning", count |-> a.morning],
      [period |-> "afternoon", count |-> a.afternoon],
      [period |-> "evening", count |-> a.evening]>>

Hours_Begin(w) ==
    [name |-> "MostActiveHours", pc |-> "hrs_events", world |-> w,
     all |-> <<>>, repos |-> 0, ncalls |-> 0, ret |-> EmptyDict]

Hours_Return(u) ==
    Return(u, hours_activity_list(categorize_by_hour(u.all)))

(* from one client call of execute to the next, or to the return *)
Hours_Step(u) ==
    LET n == [u EXCEPT !.ncalls = @ + 1] IN
    CASE u.pc = "hrs_events" ->
            [n EXCEPT !.all = @ \o Gather(u.world.events.items),
                      !.pc = "hrs_issues"]
      [] u.pc = "hrs_issues" ->
            [n EXCEPT !.all = @ \o Gather(u.world.issues.items),
                      !.pc = "hrs_repos"]
      [] u.pc = "hrs_repos" ->
            IF Falsy(u.world.repos) THEN Hours_Return(n)
            ELSE [n EXCEPT !.repos = Min(u.world.repos.n, ReposForHours),
                           !.pc = "hrs_commits"]
      [] u.pc = "hrs_commits" ->
            LET w == [n EXCEPT !.all = @ \o Gather(u.world.commits.items),
                               !.repos = @ - 1] IN
            IF w.repos > 0 THEN w ELSE Hours_Return(w)

HoursExecute ==
    /\ phase = "START"
    /\ unit.pc = "idle"
    /\ \E w \in HourWorlds : unit' = Hours_Begin(w)
    /\ UNCHANGED <<phase, discovered, twin, client, other, metrics, idx,
                   result, invoked, failed, calls, exists, failure, upc,
                   ucalls, fetch, now>>

HoursCall ==
    /\ unit.name = "MostActiveHours"
    /\ AtCall(unit)
    /\ unit' = Hours_Step(unit)
    /\ UNCHANGED <<phase, discovered, twin, client, other, metrics, idx,
                   result, invoked, failed, calls, exists, failure, upc,
                   ucalls, fetch, now>>

(* the caller has taken the returned dict *)
HoursDone ==
    /\ unit.name = "MostActiveHours"
    /\ unit.pc = "returned"
    /\ unit' = NoUnit
    /\ UNCHANGED <<phase, discovered, twin, client, other, metrics, idx,
                   result, invoked, failed, calls, exists, failure, upc,
                   ucalls, fetch, now>>

NextHours ==
    \/ HoursExecute
    \/ HoursCall
    \/ HoursDone

SpecHours == InitMetric /\ [][NextHours]_vars

----------------------------------------------------------------------------
(* LanguagesMostUsed.execute with its counters.  A Counter is the sequence
   of its (language, count) pairs in insertion order; a file is written as
   its extension *)

MAX_COMMITS_PER_REPO == 10

(* infer_language: the language of the extension, None for another one *)
infer_language(filename) ==
    CASE filename = ".py" -> "Python"
      [] filename = ".js" -> "JavaScript"
      [] filename = ".go" -> "Go"
      [] filename = ".rs" -> "Rust"
      [] OTHER -> "None"

(* the "files" of a commit: none, one, five with four languages and a
   file of no language, and six, the sixth being the only one in Rust *)
FileLists ==
    {<<>>, <<".py">>, <<".js", ".py", ".txt", ".py", ".go">>,
     <<".py", ".py", ".js", ".go", ".txt", ".rs">>,
     <<".go", ".rs", ".js", ".py", ".py", ".py">>}

(* what GET .../commits/{sha} answers: None, a dict without "files", or
   a dict with the files *)
CommitData ==
    {[t |-> "None", files |-> <<>>], [t |-> "nofiles", files |-> <<>>]}
      \cup {[t |-> "dict", files |-> f] : f \in FileLists}

LanguageWorlds ==
    [repos : {AbsentV} \cup {Data(k) : k \in 0 .. MaxRepos},
     commits : {AbsentV, Data(0), Data(1), Data(MAX_COMMITS_PER_REPO)},
     detail : CommitData]

(* counter[lang] += k *)
RECURSIVE Add(_, _, _)
Add(counter, lang, k) ==
    IF counter = <<>> THEN <<[language |-> lang, count |-> k]>>
    ELSE IF Head(counter).language = lang
    THEN <<[Head(counter) EXCEPT !.count = @ + k]>> \o Tail(counter)
    ELSE <<Head(counter)>> \o Add(Tail(counter), lang, k)

(* language_counter.update(commits) *)
RECURSIVE CounterUpdate(_, _)
CounterUpdate(counter, more) ==
    IF more = <<>> THEN counter
    ELSE CounterUpdate(Add(counter, Head(more).language, Head(more).count),
                       Tail(more))

(* sum(language_counter.values()) *)
RECURSIVE Total(_)
Total(counter) ==
    IF counter = <<>> THEN 0 ELSE Head(counter).count + Total(Tail(counter))

FirstFiles_All(files) == files

(* files[: self.MAX_FILES_PER_COMMIT] *)
FirstFiles(files) == SubSeq(files, 1, Min(Len(files), MAX_FILES_PER_COMMIT))

(* for file in files: lang = infer_language(file); if lang: usage[lang] += 1 *)
RECURSIVE CountFiles(_, _)
CountFiles(usage, files) ==
    IF files = <<>> THEN usage
    ELSE CountFiles(
            IF infer_language(Head(files)) = "None" THEN usage
            ELSE Add(usage, infer_language(Head(files)), 1),
            Tail(files))

(* the place of x in a list kept in descending order of count, behind
   the entries of the same count *)
RECURSIVE InsertDescending(_, _)
InsertDescending(x, s) ==
    IF s = <<>> THEN <<x>>
    ELSE IF Head(s).count >= x.count
    THEN <<Head(s)>> \o InsertDescending(x, Tail(s))
    ELSE <<x>> \o s

RECURSIVE Descending(_)
Descending(counter) ==
    IF counter = <<>> THEN <<>>
    ELSE InsertDescending(counter[Len(counter)],
                          Descending(SubSeq(counter, 1, Len(counter) - 1)))

(* language_counter.most_common(3): the three largest counts, equal counts
   in the order the languages were first counted *)
most_common(counter, n) ==
    SubSeq(Descending(counter), 1, Min(Len(counter), n))

Enough_Never(counter) == FALSE

(* if sum(language_counter.values()) > 100: break *)
Enough(counter) == Total(counter) > EnoughLanguages

Lang_Begin(w) ==
    [name |-> "LanguagesMostUsed", pc |-> "lang_repos", world |-> w,
     repos |-> 0, visited |-> <<>>, commits |-> 0, files |-> 0,
     usage |-> <<>>, language_counter |-> <<>>, ncalls |-> 0,
     ret |-> EmptyDict, exc |-> "none"]

(* most_used and the return of execute *)
Lang_Return(u) == Return(u, most_common(u.language_counter, 3))

(* get_commit_languages(username, repo) is called for the next repository *)
Lang_Visit(u) ==
    [u EXCEPT !.visited = Append(@, Len(@) + 1), !.usage = <<>>,
              !.pc = "lang_commits"]

(* get_commit_languages has returned usage: the update of the counter,
   then the break, the next repository, or the end of the loop *)
Lang_AfterRepo(u) ==
    LET w == [u EXCEPT !.language_counter = CounterUpdate(@, u.usage),
                       !.usage = <<>>] IN
    IF Enough(w.language_counter) \/ Len(w.visited) >= w.repos
    THEN Lang_Return(w)
    ELSE Lang_Visit(w)

(* for commit in commits: after one commit *)
Lang_AfterCommit(u) ==
    IF u.commits > 1 THEN [u EXCEPT !.commits = @ - 1, !.pc = "lang_files"]
    ELSE Lang_AfterRepo([u EXCEPT !.commits = 0])

(* from one client call of execute to the next, to the return or to the
   raise *)
Lang_Step(u) ==
    LET n == [u EXCEPT !.ncalls = @ + 1] IN
    CASE u.pc = "lang_repos" ->
            IF Falsy(u.world.repos) THEN Return(n, EmptyList)
            ELSE Lang_Visit([n EXCEPT !.repos = u.world.repos.n])
      [] u.pc = "lang_commits" ->
            IF Falsy(u.world.commits) THEN Lang_AfterRepo(n)
            ELSE [n EXCEPT !.commits = u.world.commits.n, !.pc = "lang_files"]
      [] u.pc = "lang_files" ->
            IF u.world.detail.t = "None" THEN Raise(n, "TypeError")
            ELSE LET files == FirstFiles(u.world.detail.files) IN
                 Lang_AfterCommit(
                    [n EXCEPT !.files = @ + Len(files),
                              !.usage = CountFiles(@, files)])

LangExecute ==
    /\ phase = "START"
    /\ unit.pc = "idle"
    /\ \E w \in LanguageWorlds : unit' = Lang_Begin(w)
    /\ UNCHANGED <<phase, discovered, twin, client, other, metrics, idx,
                   result, invoked, failed, calls, exists, failure, upc,
                   ucalls, fetch, now>>

LangCall ==
    /\ unit.name = "LanguagesMostUsed"
    /\ AtCall(unit)
    /\ unit' = Lang_Step(unit)
    /\ UNCHANGED <<phase, discovered, twin, client, other, metrics, idx,
                   result, invoked, failed, calls, exists, failure, upc,
                   ucalls, fetch, now>>

(* the caller has taken the returned dict or caught the exception *)
LangDone ==
    /\ unit.name = "LanguagesMostUsed"
    /\ unit.pc \in {"returned", "raised"}
    /\ unit' = NoUnit
    /\ UNCHANGED <<phase, discovered, twin, client, other, metrics, idx,
                   result, invoked, failed, calls, exists, failure, upc,
                   ucalls, fetch, now>>

NextLanguages ==
    \/ LangExecute
    \/ LangCall
    \/ LangDone

SpecLanguages == InitMetric /\ [][NextLanguages]_vars

----------------------------------------------------------------------------
(* The orchestrator on other registries: every metrics directory holding
   some of PlanUnits, discovered in any order, none included *)

PlanUnits == {"LanguagesMostUsed"} \cup Plugins

Perms(S) ==
    {f \in [1 .. Cardinality(S) -> S] :
        \A i, j \in 1 .. Cardinality(S) : f[i] = f[j] => i = j}

Registries == UNION {Perms(S) : S \in SUBSET PlanUnits}

(* GitHubInsightsService.__init__ on the registry d *)
InitPlan ==
    /\ phase = "START"
    /\ discovered \in Registries
    /\ unit = NoUnit
    /\ twin = NoUnit
    /\ client = NewClient
    /\ other = Idle
    /\ metrics = Sorted(discovered)
    /\ idx = 0
    /\ result = Unbound
    /\ invoked = <<>>
    /\ failed = {}
    /\ calls = 0
    /\ exists = "unknown"
    /\ failure = "none"
    /\ upc = "idle"
    /\ ucalls = 0
    /\ fetch = Idle
    /\ now \in TicksPerSec .. (2 * TicksPerSec - 1)

SpecPlan == InitPlan /\ [][Next]_vars

(* each metric's execute on its own, against every sequence of values its
   client calls may return *)
SpecUnits == Init /\ [][NextUnits]_vars

----------------------------------------------------------------------------
(* Properties *)

Keys(ms) == {Key(m) : m \in ms}

(* C1: when user_exists finds the subject missing, execute fails with the
   404 HTTPException, no metric has been invoked, and the existence check
   is the only client call of the run *)
C1_NotFoundAborts ==
    exists = "no" =>
        /\ phase = "NOT_FOUND"
        /\ failure = "HTTPException404"
        /\ invoked = <<>>
        /\ calls = 1

C1_Witness ==
    /\ phase = "NOT_FOUND"
    /\ exists = "no"
    /\ calls = 1

(* C2: a run in which metrics raised still completes: every metric of the
   plan was invoked, in order, the result holds exactly the keys of the
   metrics that did not raise, and the keys of the raising ones are absent *)
C2_FailureIsolated ==
    (phase = "DONE" /\ failed # {}) =>
        /\ invoked = metrics
        /\ DOMAIN result = Keys(Range(metrics) \ failed)
        /\ DOMAIN result \cap Keys(failed) = {}

C2_Witness ==
    /\ phase = "DONE"
    /\ failed = {metrics[2]}
    /\ DOMAIN result = {Key(metrics[1]), Key(metrics[3]), Key(metrics[4])}

(* C3: a call with retries >= 1 whose responses are all rate-limit events
   issues at most retries requests, ends only by the exhaustion raise, right
   after the retries-th of them, and can always take its next step *)
C3_ExhaustionTerminates ==
    (fetch.pc # "idle" /\ fetch.retries >= 1 /\ fetch.limited = fetch.reqs) =>
        /\ fetch.reqs <= fetch.retries
        /\ fetch.pc \in {"loop", "sleep", "raised"}
        /\ fetch.pc = "loop" => fetch.reqs < fetch.retries
        /\ fetch.pc = "raised" =>
              fetch.exc = "Exhausted" /\ fetch.reqs = fetch.retries
        /\ fetch.pc \in {"loop", "sleep"} => ENABLED (Request \/ Sleep)

C3_Witness ==
    /\ fetch.pc = "raised"
    /\ fetch.exc = "Exhausted"
    /\ fetch.retries >= 2
    /\ fetch.limited = fetch.retries

(* C4: a request that follows a rate-limit response announcing the reset
   instant T is issued at a clock time that is not earlier than T *)
C4_RetryNotBeforeReset ==
    [][(fetch'.reqs = fetch.reqs + 1 /\ fetch.hasT)
          => now >= fetch.T * TicksPerSec]_vars

C4_Witness ==
    /\ fetch.pc = "returned"
    /\ fetch.reqs >= 2
    /\ fetch.hasT
    /\ fetch.wait > MinWait
    /\ fetch.reqAt >= fetch.T * TicksPerSec

(* C5: once user_exists has found the subject, the run cannot fail: it has
   returned its result, or it is in its loop at a metric of the plan, about
   to invoke it, inside it, or inside a client call of it that is under
   way or has ended, whichever metrics raised or returned empty payloads *)
C5_ExistingSubjectReturns ==
    exists = "yes" =>
        /\ failure = "none"
        /\ \/ phase = "DONE"
           \/ /\ phase = "EXECUTING"
              /\ idx \in 1 .. Len(metrics)
              /\ \/ upc = "idle"
                 \/ upc = "running" /\ fetch.pc = "idle"
                 \/ /\ upc = "running"
                    /\ fetch.caller = "metric"
                    /\ fetch.pc \in {"loop", "sleep", "returned", "raised"}

C5_Witness ==
    /\ phase = "DONE"
    /\ exists = "yes"
    /\ failed = Range(metrics)
    /\ result = EmptyDict

(* C6: the exhaustion raise of a client call never leaves execute: no run
   ends with it as its failure *)
C6_ExhaustionNeverFailsRun == failure # "Exhausted"

(* C7: a run moves START -> VERIFY_SUBJECT -> (NOT_FOUND | EXECUTING ->
   DONE): while the subject is verified the existence check is the one
   client call made and no metric has been invoked, metrics are executed
   only for a subject found to exist, and a run ends only in NOT_FOUND or
   DONE *)
C7_StateMachine ==
    /\ phase \in {"START", "VERIFY_SUBJECT", "NOT_FOUND", "EXECUTING", "DONE"}
    /\ phase = "VERIFY_SUBJECT" => calls = 1 /\ invoked = <<>>
    /\ phase \in {"EXECUTING", "DONE"} => exists = "yes"
    /\ invoked # <<>> => exists = "yes"

(* C8: the step that ends the verification fails with the 404 exactly when
   the client call returned None or a dict whose "message" is "Not Found",
   and enters the execution of the metrics for every other returned value *)
C8_NotFoundIffMarker ==
    [][(phase = "VERIFY_SUBJECT" /\ phase' # "VERIFY_SUBJECT"
          /\ fetch.pc = "returned")
          => /\ phase' \in {"NOT_FOUND", "EXECUTING"}
             /\ phase' = "NOT_FOUND" <=>
                   \/ fetch.ret = None
                   \/ /\ fetch.ret.t = "dict"
                      /\ fetch.ret.hasMessage
                      /\ fetch.ret.message = "Not Found"]_vars

(* C9: a call raises only by exhaustion, after retries requests that were
   all answered by rate-limit events *)
C9_OnlyExhaustionRaises ==
    fetch.pc = "raised" =>
        /\ fetch.exc = "Exhausted"
        /\ fetch.reqs = fetch.retries
        /\ fetch.limited = fetch.retries

(* C10: when the last response of a call is neither a 200 nor a 403 with
   X-RateLimit-Remaining, the call has returned None without raising, has
   slept only for the rate-limit events before it, and every request before
   this one was answered by a rate-limit event *)
C10_ErrorReturnsNone ==
    (/\ fetch.reqs > 0
     /\ ~fetch.resp.raises
     /\ fetch.resp.status # 200
     /\ ~(fetch.resp.status = 403 /\ fetch.resp.remaining)) =>
        /\ fetch.pc = "returned"
        /\ fetch.ret = None
        /\ fetch.exc = "none"
        /\ fetch.sleeps = fetch.reqs - 1
        /\ fetch.limited = fetch.reqs - 1

C10_Witness ==
    /\ fetch.pc = "returned"
    /\ fetch.resp.status = 403
    /\ ~fetch.resp.remaining
    /\ fetch.reqs >= 2
    /\ fetch.ret = None

(* C11: when the last response of a call is a 200 with a JSON body, received
   after k rate-limit events with k < retries, the call has returned that
   body as it was parsed, without raising, and this response is the last
   request of the call: the k + 1 requests are all it issued *)
C11_SuccessReturnsBody ==
    (/\ fetch.reqs > 0
     /\ ~fetch.resp.raises
     /\ fetch.resp.status = 200
     /\ fetch.resp.body # BadJson) =>
        /\ fetch.pc = "returned"
        /\ fetch.ret = fetch.resp.body
        /\ fetch.exc = "none"
        /\ fetch.limited = fetch.reqs - 1
        /\ fetch.limited < fetch.retries
        /\ ~ENABLED Request

C11_Witness ==
    /\ fetch.pc = "returned"
    /\ fetch.resp.status = 200
    /\ fetch.limited = 2
    /\ fetch.reqs = 3
    /\ fetch.ret = DictUser

(* C12: a call never issues more requests than its retries, and a request
   that is not the first of its call directly follows a response that was a
   403 carrying X-RateLimit-Remaining *)
C12_AtMostRetriesRequests ==
    [][/\ fetch.reqs <= fetch.retries
       /\ fetch'.reqs <= fetch'.retries
       /\ (fetch'.reqs = fetch.reqs + 1 /\ fetch.reqs >= 1) =>
              /\ ~fetch.resp.raises
              /\ fetch.resp.status = 403
              /\ fetch.resp.remaining]_vars

C12_Witness ==
    /\ fetch.retries = DefaultRetries
    /\ fetch.reqs = DefaultRetries
    /\ fetch.pc = "returned"

(* C13: the step that ends a rate-limit suspension takes the call to its
   next request *)
C13_SuspensionThenRetry ==
    [][(fetch.pc = "sleep" /\ fetch'.pc # "sleep") => fetch'.pc = "loop"]_vars

(* C14: the suspension after a rate-limit response lasts
   max(reset - now, 1) whole seconds, with reset read as now when the
   response has no X-RateLimit-Reset; so it lasts at least one second, and
   a request that is not the first of its call is issued at least one
   second after the request before it *)
C14_WaitAtLeastOneSecond ==
    [][/\ fetch.pc = "sleep" =>
             /\ fetch.wait =
                   Max((IF fetch.resp.hasReset THEN fetch.resp.reset
                        ELSE IntTime(now)) - IntTime(now), 1)
             /\ fetch.wait >= 1
       /\ (fetch'.reqs = fetch.reqs + 1 /\ fetch.reqs >= 1) =>
             now >= fetch.reqAt + TicksPerSec]_vars

C14_Witness ==
    /\ fetch.pc = "sleep"
    /\ fetch.reqs >= 2
    /\ fetch.resp.hasReset
    /\ fetch.resp.reset < IntTime(now)
    /\ fetch.wait = 1

DistinctKeys(ms) ==
    \A i, j \in 1 .. Len(ms) : Key(ms[i]) = Key(ms[j]) => i = j

(* C15: when the keys of the registered metrics are pairwise distinct, the
   result a run returns has one entry for each metric that did not raise,
   under that metric's key and holding what the metric returned, an empty
   list included, and has no other entry *)
C15_OneEntryPerCompletedUnit ==
    (phase = "DONE" /\ DistinctKeys(metrics)) =>
        /\ DOMAIN result = Keys(Range(metrics) \ failed)
        /\ Cardinality(DOMAIN result) = Len(metrics) - Cardinality(failed)
        /\ \A m \in Range(metrics) \ failed : result[Key(m)] \in Payloads(m)

C15_Witness ==
    /\ phase = "DONE"
    /\ metrics = <<"LanguagesMostUsed", "PluginB">>
    /\ failed = {}
    /\ result["most_used_languages"] = EmptyList
    /\ result["plugin_data"].kind = "records"

Pos(d, m) == CHOOSE i \in 1 .. Len(d) : d[i] = m

(* C16: the plan holds the discovered metrics, each once, in ascending
   order, metrics of equal order in the order of their discovery; the
   metrics invoked so far in a run are the first ones of the plan, in the
   plan's order *)
C16_StableAscendingPlan ==
    /\ Len(metrics) = Len(discovered)
    /\ Range(metrics) = Range(discovered)
    /\ \A i, j \in 1 .. Len(metrics) :
          i < j =>
            /\ Order(metrics[i]) <= Order(metrics[j])
            /\ Order(metrics[i]) = Order(metrics[j]) =>
                  Pos(discovered, metrics[i]) < Pos(discovered, metrics[j])
    /\ Len(invoked) <= Len(metrics)
    /\ invoked = SubSeq(metrics, 1, Len(invoked))

C16_Witness ==
    /\ phase = "DONE"
    /\ discovered = <<"PluginB", "PluginA", "LanguagesMostUsed">>
    /\ invoked = <<"LanguagesMostUsed", "PluginB", "PluginA">>

(* the positions of the plan whose metric has completed without raising
   under key k *)
Writers(k) ==
    {i \in 1 .. (idx - 1) : Key(metrics[i]) = k /\ metrics[i] \notin failed}

Last(S) == CHOOSE i \in S : \A j \in S : j <= i

(* C17: during and after the loop, every key of the result holds what the
   last metric in plan order that completed under that key returned, also
   when an earlier metric completed under it and when a later metric with
   that key raised; a collision never makes the run fail *)
C17_LastWriterWins ==
    phase \in {"EXECUTING", "DONE"} =>
        /\ failure = "none"
        /\ DOMAIN result = {k \in Keys(Range(metrics)) : Writers(k) # {}}
        /\ \A k \in DOMAIN result :
              result[k] \in Payloads(metrics[Last(Writers(k))])

C17_Witness ==
    /\ phase = "DONE"
    /\ discovered = <<"PluginB", "PluginA">>
    /\ failed = {}
    /\ result["plugin_data"] = [kind |-> "records", by |-> "PluginA"]

(* C18: a service built on a registry with no metric serves no run *)
C18_EmptyRegistryRejected == discovered = <<>> => phase = "START"

(* C19: an execute of any of the four metrics in which every client call
   returned None ends by returning a dict that has the metric's key, with
   an empty list or with records whose counts are zero, and not by raising *)
C19_AllAbsentGivesEmptyResult ==
    (unit.pc \in {"returned", "raised"} /\ unit.absent = unit.ncalls) =>
        /\ unit.pc = "returned"
        /\ DOMAIN unit.ret = {Key(unit.name)}
        /\ unit.ret[Key(unit.name)] \in {EmptyList, ZeroList(unit.name)}

(* C20: an execute in which some client calls returned None, whichever
   they were, does not raise, and when it has ended it has returned a dict
   holding the metric's key *)
C20_AnyAbsentNeverRaises ==
    unit.absent >= 1 =>
        /\ unit.pc # "raised"
        /\ unit.pc = "returned" => Key(unit.name) \in DOMAIN unit.ret

(* what an execute has shown to its caller so far *)
Outcome(u) ==
    [name |-> u.name, pc |-> u.pc, ncalls |-> u.ncalls, ret |-> u.ret,
     exc |-> u.exc]

(* C21: an execute of a metric on an instance that has executed before and
   the execute of the same metric on a new instance, given the same values
   by their client calls, make the same calls and end alike: with the same
   returned dict or with the same exception *)
C21_SameInputsSameResult == Outcome(unit) = Outcome(twin)

C21_Witness ==
    /\ unit.run = 2
    /\ unit.name = "ActivityRecent"
    /\ unit.pc = "returned"
    /\ unit.absent >= 1
    /\ unit.ret = format_response("monthly_contributions",
                                   Records("ActivityRecent"))
    /\ twin.ret = unit.ret

(* C22: url, token and headers of the client are those of its
   construction in every state; each request carries that url as its base
   and those headers with the token; and a call starts with no wait and no
   reset instant of a call before it *)
C22_ClientFixed ==
    /\ client =
          [github_api_url |-> "GITHUB_API_URL",
           github_token |-> "GITHUB_TOKEN",
           headers |-> [Authorization |-> <<"Bearer", "GITHUB_TOKEN">>,
                        Accept |-> "application/vnd.github.v3+json"]]
    /\ fetch.reqs > 0 =>
          fetch.sent =
            [base |-> "GITHUB_API_URL",
             headers |-> [Authorization |-> <<"Bearer", "GITHUB_TOKEN">>,
                          Accept |-> "application/vnd.github.v3+json"]]
    /\ (fetch.pc = "loop" /\ fetch.reqs = 0) =>
          /\ fetch.sleeps = 0
          /\ fetch.limited = 0
          /\ fetch.wait = 0
          /\ ~fetch.hasT

C22_Witness ==
    /\ calls >= 3
    /\ fetch.caller = "metric"
    /\ fetch.limited >= 1
    /\ fetch.reqs >= 2
    /\ fetch.sent = Sent(client)

(* C23: a run that ended with the HTTPException of the missing user is
   answered 404, a run that ended with any other exception is answered 500,
   and 404 is the answer only of runs whose user_exists returned False *)
C23_StatusOfFailures ==
    /\ phase = "NOT_FOUND" => Answer = 404
    /\ phase = "FAILED" => Answer = 500
    /\ Answer = 404 => exists = "no" /\ failure = "HTTPException404"

C23_Witness ==
    /\ phase = "FAILED"
    /\ failure = "Exhausted"
    /\ Answer = 500

(* C24: the plan holds exactly one instance of each discovered subclass;
   during and after the loop of a run for an existing user the metrics
   invoked so far are exactly the plan's prefix up to the loop's position,
   each once and in order, so a finished run has invoked every instance once,
   the ones after a failure included, and no failed one a second time *)
C24_EachUnitOnce ==
    /\ Range(metrics) = Range(discovered)
    /\ \A i, j \in DOMAIN metrics : metrics[i] = metrics[j] => i = j
    /\ \A i, j \in DOMAIN invoked : invoked[i] = invoked[j] => i = j
    /\ failed \subseteq Range(invoked)
    /\ phase = "EXECUTING" =>
           invoked = SubSeq(metrics, 1, IF upc = "running" THEN idx ELSE idx - 1)
    /\ phase = "DONE" => invoked = metrics

C24_Witness ==
    /\ phase = "DONE"
    /\ exists = "yes"
    /\ Len(metrics) >= 3
    /\ metrics[1] \in failed
    /\ metrics[2] \notin failed
    /\ invoked = metrics

(* C25: the loop of every run starts on an empty result, the runs after
   the first included, and every key the result holds during and after the
   loop was written by a metric invoked in this run that did not raise *)
C25_AggregateStartsEmpty ==
    /\ (phase \in {"EXECUTING", "DONE"} /\ invoked = <<>>) => result = EmptyDict
    /\ (phase = "EXECUTING" /\ upc = "running" /\ Len(invoked) = 1)
          => result = EmptyDict
    /\ phase \in {"EXECUTING", "DONE"}
          => DOMAIN result \subseteq Keys(Range(invoked) \ failed)

(* a later run enters its loop: ucalls still counts the client calls of the
   last metric of the run before, no metric of this run has started *)
C25_Witness ==
    /\ phase = "EXECUTING"
    /\ invoked = <<>>
    /\ upc = "idle"
    /\ ucalls >= 1
    /\ result = EmptyDict

(* C26: no step of a run changes the plan or the registry it was built
   from, whether the run ends with the 404, completes, or has metrics that
   raise *)
C26_PlanUnchanged ==
    [][metrics' = metrics /\ discovered' = discovered]_vars

C26_Witness ==
    /\ phase = "DONE"
    /\ failed = Range(metrics)
    /\ Cardinality(failed) = 4
    /\ metrics = Sorted(discovered)

(* the metrics of this run that were called and have neither returned
   nor raised *)
Executing == Len(invoked) - Cardinality(failed) - Cardinality(DOMAIN result)

(* C27: within a run at most one metric is executing, the one at the
   loop's position, and every metric before it has returned or raised; a
   client call is in progress only for the existence check, before any
   metric, or for the one executing metric *)
C27_Sequential ==
    /\ phase \in {"EXECUTING", "DONE"} =>
          /\ Executing = (IF upc = "running" THEN 1 ELSE 0)
          /\ \A i \in 1 .. Len(metrics) :
                 i < idx => \/ metrics[i] \in failed
                            \/ Key(metrics[i]) \in DOMAIN result
    /\ upc = "running" =>
          /\ phase = "EXECUTING"
          /\ invoked[Len(invoked)] = metrics[idx]
    /\ fetch.pc # "idle" =>
          \/ /\ fetch.caller = "user_exists"
             /\ phase = "VERIFY_SUBJECT"
             /\ upc = "idle"
             /\ invoked = <<>>
          \/ /\ fetch.caller = "metric"
             /\ upc = "running"

C27_Witness ==
    /\ upc = "running"
    /\ idx = 2
    /\ metrics[1] \in failed
    /\ fetch.caller = "metric"
    /\ fetch.pc = "sleep"
    /\ Executing = 1

(* what a finished activation hands to its caller, from the responses it
   received itself *)
Alone(f) ==
    /\ f.sleeps = f.attempt
    /\ f.limited = f.sleeps + (IF f.pc = "sleep" THEN 1 ELSE 0)
    /\ f.pc = "returned" =>
          /\ f.reqs = f.limited + 1
          /\ f.ret = (IF f.resp.status = 200 THEN f.resp.body ELSE None)
    /\ f.pc = "raised" =>
          \/ f.exc = "Exhausted" /\ f.limited = f.retries /\ f.reqs = f.retries
          \/ f.exc # "Exhausted" /\ f.reqs = f.limited + 1

(* C28: while the call of one thread sleeps on a rate limit the call of
   the other thread can issue its request, and each call, also when the
   two are interleaved, ends with what its own responses give it *)
C28_SleepBlocksOnlyItsCall ==
    /\ (fetch.pc = "sleep" /\ other.pc = "loop") => ENABLED OtherRequest
    /\ (other.pc = "sleep" /\ fetch.pc = "loop") => ENABLED PairRequest
    /\ Alone(fetch)
    /\ Alone(other)

C28_Witness ==
    /\ fetch.pc = "sleep"
    /\ fetch.sleeps = 0
    /\ other.pc = "returned"
    /\ other.sleeps = 1
    /\ other.reqAt > fetch.reqAt

(* C29: once a call has been told the reset instant T and sleeps on it,
   the other call sharing the token issues no request before T *)
C29_ResetHonouredByAll ==
    [][/\ (fetch.pc = "sleep" /\ fetch.hasT /\ other'.reqs = other.reqs + 1)
            => now >= fetch.T * TicksPerSec
       /\ (other.pc = "sleep" /\ other.hasT /\ fetch'.reqs = fetch.reqs + 1)
            => now >= other.T * TicksPerSec]_vars

(* C30: the pull-request metric asks for page 1, then page 2, ..., makes
   at most max_pages client calls, and ends by returning its key with the
   records of the pages it counted *)
C30_PaginationBounded ==
    unit.name = "RepositoriesWithMorePRs" =>
        /\ unit.ncalls <= MaxPages
        /\ unit.pc = "pr_page" => unit.page = unit.ncalls + 1
        /\ unit.pc \in {"returned", "raised"} =>
              /\ unit.pc = "returned"
              /\ unit.ncalls >= 1
              /\ unit.ret[Key(unit.name)] =
                    (IF unit.counted > 0 THEN Records(unit.name) ELSE EmptyList)

(* the calendar month before the month written YYYYMM *)
PrevMonth(k) == IF k % 100 = 1 THEN k - 89 ELSE k - 1

(* C31: whenever the monthly-contributions metric returns, also when the
   user has no repositories or their listing is absent, its list has one
   entry for each analysed month, and the entries hold the counts of pull
   requests and issues that were fetched *)
C31_EntryForEachMonth ==
    (unit.name = "ActivityRecent" /\ unit.pc = "returned") =>
        LET list == unit.ret["monthly_contributions"] IN
        /\ list # EmptyList
        /\ {list[i].month : i \in DOMAIN list} = Range(unit.months)
        /\ \A i \in DOMAIN list :
              /\ list[i].pull_requests = CountOf(unit.world.prs)
              /\ list[i].issues = CountOf(unit.world.issues)

(* C32: on every date the six months analysed are the current month and
   the five calendar months before it, each once, and the commits reported
   for a month are the commits fetched for it, once for each repository *)
C32_SixMonthsCommitsOnce ==
    unit.name = "ActivityRecent" =>
        /\ unit.months[1] = YearMonth(unit.today)
        /\ \A i \in 1 .. (Months - 1) :
              unit.months[i + 1] = PrevMonth(unit.months[i])
        /\ (unit.pc = "returned" /\ unit.nrepos > 0) =>
              \A k \in DOMAIN unit.contributions :
                 unit.contributions[k].commits =
                    unit.nrepos * CountOf(unit.world.commits)

(* the timestamps of the sequence s that parse, with an hour in H *)
Parsed(s, H) == Cardinality({i \in DOMAIN s : s[i].ok /\ s[i].hour \in H})

(* the timestamps a listing holds under the key looked for *)
Held(l) == Cardinality({i \in DOMAIN l.items : l.items[i].key})

(* C33: the active-hours metric does not raise, and what it returns is the
   list of morning, afternoon and evening, in this order, whose counts are
   the timestamps with hour 0..11, 12..17 and 18..23 among those gathered
   from the events, the issues and pull requests, and the commits of the
   first five repositories; a timestamp that does not parse is in none of
   the counts *)
C33_ThreePeriods ==
    unit.name = "MostActiveHours" =>
        /\ unit.pc # "raised"
        /\ unit.pc = "returned" =>
              LET l == unit.ret["hours_more_activity"] IN
              /\ Len(unit.all) =
                    Held(unit.world.events) + Held(unit.world.issues)
                      + unit.world.repos.n * Held(unit.world.commits)
                      - (IF unit.world.repos.n > 5
                         THEN (unit.world.repos.n - 5) * Held(unit.world.commits)
                         ELSE 0)
              /\ Len(l) = 3
              /\ <<l[1].period, l[2].period, l[3].period>> =
                    <<"morning", "afternoon", "evening">>
              /\ l[1].count = Parsed(unit.all, 0 .. 11)
              /\ l[2].count = Parsed(unit.all, 12 .. 17)
              /\ l[3].count = Parsed(unit.all, 18 .. 23)
              /\ l[1].count + l[2].count + l[3].count =
                    Parsed(unit.all, 0 .. 23)

C33_Witness ==
    /\ unit.name = "MostActiveHours"
    /\ unit.pc = "returned"
    /\ unit.world.events = ListOf(<<[key |-> TRUE, at |-> BadStamp]>>)
    /\ unit.world.issues = ListOf(<<[key |-> TRUE, at |-> Stamp(11)]>>)
    /\ unit.world.repos = Data(6)
    /\ unit.world.commits = ListOf(<<[key |-> TRUE, at |-> Stamp(12)]>>)
    /\ unit.ret["hours_more_activity"][1].count = 1
    /\ unit.ret["hours_more_activity"][2].count = 5
    /\ unit.ret["hours_more_activity"][3].count = 0

(* the files one commit of the world adds to the counters: those with a
   language among its first five *)
PerCommit(w) ==
    Cardinality({i \in 1 .. Len(w.detail.files) :
                    i <= 5 /\ infer_language(w.detail.files[i]) # "None"})

(* the commits whose files the activation u has fetched: its client calls
   without the listing of the repositories and the listings of commits *)
Details(u) ==
    u.ncalls - (IF u.pc = "lang_repos" THEN 0 ELSE 1)
             - (Len(u.visited) - (IF u.pc = "lang_commits" THEN 1 ELSE 0))

(* what one repository of the world adds *)
PerRepo(w) == CountOf(w.commits) * PerCommit(w)

(* C34: the languages metric visits the repositories in the listed order,
   goes on to a further repository only while the counts add up to 100 at
   most and visits all of them unless they add up to more, counts no more
   than 5 files of a commit, and returns at most three languages, none with
   a smaller count than a language left out, in non-increasing order of
   count *)
C34_LanguagesBounded ==
    unit.name = "LanguagesMostUsed" =>
        /\ \A i \in DOMAIN unit.visited : unit.visited[i] = i
        /\ \A k \in 1 .. (Len(unit.visited) - 1) : k * PerRepo(unit.world) <= 100
        /\ unit.files <= 5 * Details(unit)
        /\ unit.pc = "returned" /\ ~Falsy(unit.world.repos) =>
              LET l == unit.ret["most_used_languages"]
                  c == unit.language_counter
              IN
              /\ \/ Len(unit.visited) = unit.world.repos.n
                 \/ Len(unit.visited) * PerRepo(unit.world) > 100
              /\ Total(c) = Len(unit.visited) * PerRepo(unit.world)
              /\ Len(l) <= 3
              /\ Len(l) = Min(3, Len(c))
              /\ \A i \in 1 .. (Len(l) - 1) : l[i].count >= l[i + 1].count
              /\ \A i \in DOMAIN l : \E j \in DOMAIN c : c[j] = l[i]
              /\ \A j \in DOMAIN c :
                    (\A i \in DOMAIN l : l[i] # c[j])
                       => c[j].count <= l[Len(l)].count

C34_Witness ==
    /\ unit.name = "LanguagesMostUsed"
    /\ unit.pc = "returned"
    /\ unit.world.repos = Data(6)
    /\ unit.world.detail.files = <<".go", ".rs", ".js", ".py", ".py", ".py">>
    /\ unit.visited = <<1, 2, 3>>
    /\ unit.ret["most_used_languages"] =
          <<[language |-> "Python", count |-> 60],
            [language |-> "Go", count |-> 30],
            [language |-> "Rust", count |-> 30]>>

====
